---- MODULE Spec2Model ----
(***************************************************************************)
(* Text console driver (terminal.c) and keyboard main loop (kernel.c) of   *)
(* the Bare Bones kernel.                                                  *)
(*                                                                         *)
(* The console is modelled on a screen of VGA_WIDTH x VGA_HEIGHT cells     *)
(* that is scaled down from the 80 x 25 of vga.h: every operator below is  *)
(* written against the two names only, as the C code is.                   *)
(***************************************************************************)
EXTENDS Integers, Sequences, FiniteSets

(* ---- screen geometry (scaled down, see above) and exploration bounds --- *)
VGA_WIDTH == 12
VGA_HEIGHT == 3
\* longest sequence of console calls explored after terminal_initialize
MaxSteps == 5

(* ---- program constants ------------------------------------------------- *)
VGA_COLOR_DARK_GREY == 8
VGA_COLOR_LIGHT_RED == 12
VGA_COLOR_BLUE == 1
VGA_COLOR_WHITE == 15
\* '\n', '\t', '\b', ' ', and 'a', 'A', 'b' as printable characters
NL == 10
TAB == 9
BS == 8
SPACE == 32
CHAR_a == 97
CHAR_A == 65
CHAR_b == CHAR_a + 1
\* CRT controller: command port 0x3D4, data port 0x3D5, cursor registers
CRTC_COMMAND == 980
CRTC_DATA == 981
CURSOR_LOW == 15
CURSOR_HIGH == 14
\* widths of uint8_t and uint16_t
U8 == 256
U16 == 65536
TAB_STOP == 4

Cells == VGA_WIDTH * VGA_HEIGHT

(* ---- bit operations ---------------------------------------------------- *)
RECURSIVE BitOr(_, _)
BitOr(a, b) ==
    IF a = 0 THEN b
    ELSE IF b = 0 THEN a
    ELSE (IF (a % 2) + (b % 2) > 0 THEN 1 ELSE 0) + 2 * BitOr(a \div 2, b \div 2)

\* x & ~3 on an unsigned value: clear the two low bits
ClearLow2(x) == x - (x % TAB_STOP)

(* ---- vga.h ------------------------------------------------------------- *)
\* fg | bg << 4, returned as uint8_t
vga_entry_color(fg, bg) == BitOr(fg, bg * 16) % U8

\* (uint16_t) uc | (uint16_t) color << 8
vga_entry(uc, color) == BitOr(uc % U8, ((color % U8) * U8) % U16)

DefaultColor == vga_entry_color(VGA_COLOR_LIGHT_RED, VGA_COLOR_DARK_GREY)
OtherColor == vga_entry_color(VGA_COLOR_WHITE, VGA_COLOR_BLUE)

(* ---- common.h: port output --------------------------------------------- *)
\* s is the console record: row, column, color, buffer, stray, crtc, outs.
\* crtc is the CRT controller (selected index, the two cursor registers);
\* outs is the list of port writes of the call in progress.
outb(s, port, val) ==
    [s EXCEPT
       !.outs = Append(@, <<port, val>>),
       !.crtc = IF port = CRTC_COMMAND THEN [@ EXCEPT !.index = val]
                ELSE IF port = CRTC_DATA /\ @.index \in DOMAIN @.reg
                     THEN [@ EXCEPT !.reg[@.index] = val]
                ELSE @]

(* ---- terminal.c -------------------------------------------------------- *)
\* terminal_buffer[index] = val.  The buffer has Cells cells; a store past
\* its end lands in the memory behind the screen and is kept in stray.
Store(s, index, val) ==
    IF index < Cells
    THEN [s EXCEPT !.buffer[index] = val]
    ELSE [s EXCEPT !.stray = @ \cup {<<index, val>>}]

terminal_update_cursor_highfirst(s, x, y) ==
    LET pos == (y * VGA_WIDTH + x) % U16
        s1 == outb(s, CRTC_COMMAND, CURSOR_HIGH)
        s2 == outb(s1, CRTC_DATA, (pos \div U8) % U8)
        s3 == outb(s2, CRTC_COMMAND, CURSOR_LOW)
    IN  outb(s3, CRTC_DATA, pos % U8)

terminal_update_cursor(s, x, y) ==
    LET pos == (y * VGA_WIDTH + x) % U16
        s1 == outb(s, CRTC_COMMAND, CURSOR_LOW)
        s2 == outb(s1, CRTC_DATA, pos % U8)
        s3 == outb(s2, CRTC_COMMAND, CURSOR_HIGH)
    IN  outb(s3, CRTC_DATA, (pos \div U8) % U8)

\* row y of the buffer: the cells with index y * VGA_WIDTH + x, x < VGA_WIDTH
InRow(index, y) == index \div VGA_WIDTH = y

\* the loop nest of terminal_initialize from row y on: the outer loop in
\* order, the inner loop over x as one assignment of the row; blank is
\* vga_entry(' ', terminal_color), the same in every iteration
RECURSIVE FillRows(_, _, _)
FillRows(s, y, blank) ==
    IF y >= VGA_HEIGHT THEN s
    ELSE FillRows([s EXCEPT !.buffer =
                      [i \in DOMAIN @ |-> IF InRow(i, y) THEN blank ELSE @[i]]],
                  y + 1, blank)

terminal_initialize_keepcolor(s) ==
    LET s1 == [s EXCEPT !.row = 0, !.column = 0]
        s2 == FillRows(s1, 0, vga_entry(SPACE, s1.color))
    IN  terminal_update_cursor(s2, s2.column, s2.row)

terminal_initialize(s) ==
    LET s1 == [s EXCEPT !.row = 0, !.column = 0,
                        !.color = vga_entry_color(VGA_COLOR_LIGHT_RED,
                                                  VGA_COLOR_DARK_GREY)]
        s2 == FillRows(s1, 0, vga_entry(SPACE, s1.color))
    IN  terminal_update_cursor(s2, s2.column, s2.row)

terminal_setcolor_repaint(s, color) ==
    [s EXCEPT !.color = color % U8,
              !.buffer = [i \in DOMAIN @ |-> vga_entry(@[i] % U8, color % U8)]]

terminal_setcolor(s, color) == [s EXCEPT !.color = color % U8]

\* first loop nest of terminal_scroll from row y on: row y takes the cells
\* of row y + 1 as they are when the outer loop gets there
RECURSIVE ScrollCopy(_, _)
ScrollCopy(s, y) ==
    IF y >= VGA_HEIGHT - 1 THEN s
    ELSE ScrollCopy([s EXCEPT !.buffer =
                       [i \in DOMAIN @ |->
                          IF InRow(i, y) THEN @[i + VGA_WIDTH] ELSE @[i]]],
                    y + 1)

\* second loop of terminal_scroll: every cell of row last_row_y is set to
\* vga_entry(' ', terminal_color)
ScrollClear(s) ==
    [s EXCEPT !.buffer =
        [i \in DOMAIN @ |->
           IF InRow(i, VGA_HEIGHT - 1) THEN vga_entry(SPACE, s.color) ELSE @[i]]]

terminal_scroll_noclear(s) == ScrollCopy(s, 0)

terminal_scroll(s) == ScrollClear(ScrollCopy(s, 0))

\* ++terminal_row, then scroll and pin when it reaches VGA_HEIGHT
NextRow_nopin(s) ==
    LET s1 == [s EXCEPT !.row = @ + 1]
    IN  IF s1.row = VGA_HEIGHT THEN terminal_scroll(s1) ELSE s1

NextRow_noscroll(s) ==
    LET s1 == [s EXCEPT !.row = @ + 1]
    IN  IF s1.row = VGA_HEIGHT THEN [s1 EXCEPT !.row = VGA_HEIGHT - 1] ELSE s1

NextRow(s) ==
    LET s1 == [s EXCEPT !.row = @ + 1]
    IN  IF s1.row = VGA_HEIGHT
        THEN [terminal_scroll(s1) EXCEPT !.row = VGA_HEIGHT - 1]
        ELSE s1

PutNewline(s) == NextRow([s EXCEPT !.column = 0])

PutTab_add(s) ==
    LET s1 == [s EXCEPT !.column = @ + TAB_STOP]
    IN  IF s1.column >= VGA_WIDTH THEN NextRow([s1 EXCEPT !.column = 0]) ELSE s1

PutTab(s) ==
    LET s1 == [s EXCEPT !.column = ClearLow2(@ + TAB_STOP)]
    IN  IF s1.column >= VGA_WIDTH THEN NextRow([s1 EXCEPT !.column = 0]) ELSE s1

\* terminal_row * VGA_WIDTH + terminal_column (size_t: no value of the
\* model comes near its 32 bits)
Index(s) == s.row * VGA_WIDTH + s.column

EarlyReturn_never(s, c) == FALSE

\* the return of the backspace branch: the call ends there, before
\* terminal_update_cursor
EarlyReturn(s, c) == c = BS /\ s.row = 0 /\ s.column = 0

\* the backspace branch below its early return
PutBackspace(s) ==
    IF s.column > 0
    THEN LET s1 == [s EXCEPT !.column = @ - 1]
         IN  Store(s1, Index(s1), vga_entry(SPACE, s1.color))
    ELSE LET s1 == [s EXCEPT !.row = @ - 1, !.column = VGA_WIDTH]
         IN  Store(s1, Index(s1), vga_entry(SPACE, s1.color))

PutRegular_nowrap(s, c) ==
    LET s1 == Store(s, Index(s), vga_entry(c, s.color))
    IN  [s1 EXCEPT !.column = @ + 1]

PutRegular(s, c) ==
    LET s1 == Store(s, Index(s), vga_entry(c, s.color))
        s2 == [s1 EXCEPT !.column = @ + 1]
    IN  IF s2.column = VGA_WIDTH THEN NextRow([s2 EXCEPT !.column = 0]) ELSE s2

\* the branch taken for c, before the cursor update
PutBranch(s, c) ==
    IF c = NL THEN PutNewline(s)
    ELSE IF c = TAB THEN PutTab(s)
    ELSE IF c = BS THEN PutBackspace(s)
    ELSE PutRegular(s, c)

terminal_putchar_nosync(s, c) ==
    IF EarlyReturn(s, c) THEN s ELSE PutBranch(s, c)

terminal_putchar(s, c) ==
    IF EarlyReturn(s, c) THEN s
    ELSE LET s1 == PutBranch(s, c)
         IN  terminal_update_cursor(s1, s1.column, s1.row)

(* ---- keyboard.h / kernel.c -------------------------------------------- *)
\* set-1 scancodes: left shift, right shift, caps lock, 'a', escape; the
\* break code of a key is its make code plus 0x80
SC_LSHIFT == 42
SC_RSHIFT == 54
SC_LSHIFT_BREAK == 170
SC_RSHIFT_BREAK == 182
SC_CAPS == 58
SC_A == 30
SC_ESC == 1
BREAK_BIT == 128
NO_CHAR == 0

\* the translation table: (lowercase, uppercase) per make code, NO_CHAR for
\* a key without a glyph
scancode_to_ascii(scancode, capital) ==
    IF scancode = SC_A THEN (IF capital THEN CHAR_A ELSE CHAR_a)
    ELSE NO_CHAR

\* "Kernel Booted. Try Shift AND Caps Lock!\n"
Banner ==
    << 75, 101, 114, 110, 101, 108, 32, 66, 111, 111,
       116, 101, 100, 46, 32, 84, 114, 121, 32, 83,
       104, 105, 102, 116, 32, 65, 78, 68, 32, 67,
       97, 112, 115, 32, 76, 111, 99, 107, 33, 10 >>

\* is_shift_pressed after the two shift tests of the loop body
ShiftAfter_makeonly(shift, scancode) ==
    IF scancode = SC_LSHIFT \/ scancode = SC_RSHIFT THEN TRUE ELSE shift

ShiftAfter_anybreak(shift, scancode) ==
    IF scancode = SC_LSHIFT \/ scancode = SC_RSHIFT THEN TRUE
    ELSE IF scancode >= BREAK_BIT THEN FALSE
    ELSE shift

ShiftAfter(shift, scancode) ==
    IF scancode = SC_LSHIFT \/ scancode = SC_RSHIFT THEN TRUE
    ELSE IF scancode = SC_LSHIFT_BREAK \/ scancode = SC_RSHIFT_BREAK THEN FALSE
    ELSE shift

IsShiftCode(scancode) ==
    scancode \in {SC_LSHIFT, SC_RSHIFT, SC_LSHIFT_BREAK, SC_RSHIFT_BREAK}

CapsAfter_anyedge(caps, scancode) ==
    IF ~IsShiftCode(scancode) /\ scancode % BREAK_BIT = SC_CAPS
    THEN ~caps ELSE caps

\* is_caps_locked after the caps lock test
CapsAfter(caps, scancode) ==
    IF ~IsShiftCode(scancode) /\ scancode = SC_CAPS THEN ~caps ELSE caps

IsTyping_anymake(scancode) == scancode < BREAK_BIT

\* the typing case is reached
IsTyping(scancode) ==
    ~IsShiftCode(scancode) /\ scancode # SC_CAPS /\ scancode < BREAK_BIT

CapitalArg_or(shift, caps) == shift \/ caps

\* is_shift_pressed ^ is_caps_locked
CapitalArg(shift, caps) == shift # caps

(* ---- state ------------------------------------------------------------- *)
VARIABLES
    terminal_row, terminal_column, terminal_color, terminal_buffer,
    stray,             \* stores of the driver that fell outside the buffer
    crtc,              \* CRT controller: selected index, cursor registers
    outs,              \* port writes of the last call
    is_shift_pressed, is_caps_locked,
    held,              \* make codes of the keys physically held down
    hist,              \* console calls since the last terminal_initialize
    pre,               \* program state before the last call
    op,                \* the last call and its argument
    boot,              \* bytes of the boot message written so far
    scancodes,         \* scancodes the main loop has read
    calls              \* translation calls made by the main loop, with results

vars == <<terminal_row, terminal_column, terminal_color, terminal_buffer, stray,
          crtc, outs, is_shift_pressed, is_caps_locked, held, hist, pre, op,
          boot, scancodes, calls>>

\* the console as one record, outs emptied for the call that starts
Term ==
    [row |-> terminal_row, column |-> terminal_column, color |-> terminal_color,
     buffer |-> terminal_buffer, stray |-> stray, crtc |-> crtc, outs |-> <<>>]

SetTerm(s) ==
    /\ terminal_row' = s.row
    /\ terminal_column' = s.column
    /\ terminal_color' = s.color
    /\ terminal_buffer' = s.buffer
    /\ stray' = s.stray
    /\ crtc' = s.crtc
    /\ outs' = s.outs

Snapshot ==
    [row |-> terminal_row, column |-> terminal_column, color |-> terminal_color,
     buffer |-> terminal_buffer, stray |-> stray, crtc |-> crtc,
     shift |-> is_shift_pressed, caps |-> is_caps_locked,
     nhist |-> Len(hist), ncalls |-> Len(calls)]

\* memory and registers before terminal_initialize has run: .bss is zero,
\* the screen holds whatever the firmware left (every cell g)
PowerOn(g) ==
    [row |-> 0, column |-> 0, color |-> 0,
     buffer |-> [i \in 0 .. Cells - 1 |-> g], stray |-> {},
     crtc |-> [index |-> 0,
               reg |-> [r \in {CURSOR_HIGH, CURSOR_LOW} |-> g % U8]],
     outs |-> <<>>]

Garbage == {0, vga_entry(CHAR_b, OtherColor)}

Colors == {DefaultColor, OtherColor}
Chars == {NL, TAB, BS, CHAR_a}
Keys == {SC_LSHIFT, SC_RSHIFT, SC_CAPS, SC_A, SC_ESC}

IsRegular(c) == c # NL /\ c # TAB /\ c # BS

\* hist entries: <<call, argument, terminal_color when called>>
HistPut(c) == <<"putchar", c, terminal_color>>
HistColor(a) == <<"setcolor", a, terminal_color>>

(* ---- console driver called directly ------------------------------------ *)
Init ==
    /\ \E g \in Garbage : \E s \in {terminal_initialize(PowerOn(g))} :
         /\ terminal_row = s.row
         /\ terminal_column = s.column
         /\ terminal_color = s.color
         /\ terminal_buffer = s.buffer
         /\ stray = s.stray
         /\ crtc = s.crtc
         /\ outs = s.outs
         /\ pre = [row |-> 0, column |-> 0, color |-> 0, buffer |-> PowerOn(g).buffer,
                   stray |-> {}, crtc |-> PowerOn(g).crtc,
                   shift |-> FALSE, caps |-> FALSE, nhist |-> 0, ncalls |-> 0]
    /\ is_shift_pressed = FALSE
    /\ is_caps_locked = FALSE
    /\ held = {}
    /\ hist = <<>>
    /\ op = <<"initialize", 0>>
    /\ boot = 0
    /\ scancodes = <<>>
    /\ calls = <<>>

Initialize ==
    /\ \E s \in {terminal_initialize(Term)} : SetTerm(s)
    /\ hist' = <<>>
    /\ pre' = Snapshot
    /\ op' = <<"initialize", 0>>
    /\ UNCHANGED <<is_shift_pressed, is_caps_locked, held, boot, scancodes, calls>>

SetColor ==
    \E a \in Colors :
        /\ Len(hist) < MaxSteps
        /\ \E s \in {terminal_setcolor(Term, a)} : SetTerm(s)
        /\ hist' = Append(hist, HistColor(a))
        /\ pre' = Snapshot
        /\ op' = <<"setcolor", a>>
        /\ UNCHANGED <<is_shift_pressed, is_caps_locked, held, boot, scancodes, calls>>

PutChar ==
    \E c \in Chars :
        /\ Len(hist) < MaxSteps
        /\ \E s \in {terminal_putchar(Term, c)} : SetTerm(s)
        /\ hist' = Append(hist, HistPut(c))
        /\ pre' = Snapshot
        /\ op' = <<"putchar", c>>
        /\ UNCHANGED <<is_shift_pressed, is_caps_locked, held, boot, scancodes, calls>>

Scroll ==
    /\ Len(hist) < MaxSteps
    /\ \E s \in {terminal_scroll(Term)} : SetTerm(s)
    /\ hist' = Append(hist, <<"scroll", 0, terminal_color>>)
    /\ pre' = Snapshot
    /\ op' = <<"scroll", 0>>
    /\ UNCHANGED <<is_shift_pressed, is_caps_locked, held, boot, scancodes, calls>>

Next == Initialize \/ SetColor \/ PutChar \/ Scroll

Spec == Init /\ [][Next]_vars

(* ---- kernel_main ------------------------------------------------------- *)
\* longest scancode stream explored
MaxScancodes == 5

\* kernel_main has called terminal_initialize()
KernelInit ==
    /\ Init

\* one iteration of the loop of terminal_write under
\* terminal_writestring("Kernel Booted. ...\n")
BootWrite ==
    /\ boot < Len(Banner)
    /\ \E s \in {terminal_putchar(Term, Banner[boot + 1])} : SetTerm(s)
    /\ hist' = Append(hist, HistPut(Banner[boot + 1]))
    /\ pre' = Snapshot
    /\ op' = <<"putchar", Banner[boot + 1]>>
    /\ boot' = boot + 1
    /\ UNCHANGED <<is_shift_pressed, is_caps_locked, held, scancodes, calls>>

Emits_always(c) == TRUE

\* if (c != 0)
Emits(c) == c # NO_CHAR

\* one iteration of the while (1) loop, keyboard_read_scancode() returning
\* scancode
LoopBody(scancode) ==
    LET capital == CapitalArg(is_shift_pressed, is_caps_locked)
        c == scancode_to_ascii(scancode, capital)
    IN  /\ is_shift_pressed' = ShiftAfter(is_shift_pressed, scancode)
        /\ is_caps_locked' = CapsAfter(is_caps_locked, scancode)
        /\ IF IsTyping(scancode)
           THEN /\ calls' = Append(calls, <<scancode, capital, c>>)
                /\ IF Emits(c)
                   THEN /\ \E s \in {terminal_putchar(Term, c)} : SetTerm(s)
                        /\ hist' = Append(hist, HistPut(c))
                   ELSE /\ SetTerm(Term)
                        /\ hist' = hist
           ELSE /\ calls' = calls
                /\ SetTerm(Term)
                /\ hist' = hist
        /\ scancodes' = Append(scancodes, scancode)
        /\ pre' = Snapshot
        /\ op' = <<"scancode", scancode>>
        /\ boot' = boot

\* a key goes down: the keyboard sends its make code
KeyDown ==
    \E k \in Keys \ held :
        /\ boot = Len(Banner)
        /\ Len(scancodes) < MaxScancodes
        /\ held' = held \cup {k}
        /\ LoopBody(k)

\* a key goes up: the keyboard sends its break code
KeyUp ==
    \E k \in held :
        /\ boot = Len(Banner)
        /\ Len(scancodes) < MaxScancodes
        /\ held' = held \ {k}
        /\ LoopBody(k + BREAK_BIT)

\* a key stays down: the keyboard repeats its make code
KeyRepeat ==
    \E k \in held :
        /\ boot = Len(Banner)
        /\ Len(scancodes) < MaxScancodes
        /\ held' = held
        /\ LoopBody(k)

KernelNext == BootWrite \/ KeyDown \/ KeyUp \/ KeyRepeat

SpecKernel == KernelInit /\ [][KernelNext]_vars

(* ---- filling the screen ------------------------------------------------ *)
\* Long runs of regular characters: mostly 'a' in one colour, with at most
\* MaxFillChanges calls that are a 'b' or a terminal_setcolor.
MaxFillChanges == 1

FillChanges ==
    Cardinality({i \in 1 .. Len(hist) :
                   hist[i][1] = "setcolor" \/ hist[i][2] = CHAR_b})

FillWrites == Cardinality({i \in 1 .. Len(hist) : hist[i][1] = "putchar"})

FillPutChar ==
    \E c \in {CHAR_a, CHAR_b} :
        /\ FillWrites <= Cells
        /\ c = CHAR_b => FillChanges < MaxFillChanges
        /\ \E s \in {terminal_putchar(Term, c)} : SetTerm(s)
        /\ hist' = Append(hist, HistPut(c))
        /\ pre' = Snapshot
        /\ op' = <<"putchar", c>>
        /\ UNCHANGED <<is_shift_pressed, is_caps_locked, held, boot, scancodes, calls>>

FillSetColor ==
    \E a \in Colors \ {terminal_color} :
        /\ FillWrites <= Cells
        /\ FillChanges < MaxFillChanges
        /\ \E s \in {terminal_setcolor(Term, a)} : SetTerm(s)
        /\ hist' = Append(hist, HistColor(a))
        /\ pre' = Snapshot
        /\ op' = <<"setcolor", a>>
        /\ UNCHANGED <<is_shift_pressed, is_caps_locked, held, boot, scancodes, calls>>

FillNext == FillPutChar \/ FillSetColor

SpecFill == Init /\ [][FillNext]_vars

(* ---- typing on after a backspace across a row boundary ----------------- *)
\* Runs of '\n', '\b' and 'a' with fewer than VGA_HEIGHT + 1 control
\* characters and at most VGA_WIDTH + 1 regular ones.
OverrunControls ==
    Cardinality({i \in 1 .. Len(hist) : hist[i][2] \in {NL, BS}})

OverrunPutChar ==
    \E c \in {NL, BS, CHAR_a} :
        /\ IF IsRegular(c)
           THEN FillWrites - OverrunControls <= VGA_WIDTH
           ELSE OverrunControls < VGA_HEIGHT
        /\ \E s \in {terminal_putchar(Term, c)} : SetTerm(s)
        /\ hist' = Append(hist, HistPut(c))
        /\ pre' = Snapshot
        /\ op' = <<"putchar", c>>
        /\ UNCHANGED <<is_shift_pressed, is_caps_locked, held, boot, scancodes, calls>>

OverrunNext == OverrunPutChar

SpecOverrun == Init /\ [][OverrunNext]_vars

(* ---- terminal_update_cursor called directly --------------------------- *)
\* a row far enough down for the position to need its high byte
MaxCursorRow == 24

CursorRows == {0, VGA_HEIGHT - 1, MaxCursorRow, 2 * MaxCursorRow}

UpdateCursor ==
    \E x \in 0 .. VGA_WIDTH - 1 : \E y \in CursorRows :
        /\ \E s \in {terminal_update_cursor(Term, x, y)} : SetTerm(s)
        /\ hist' = hist
        /\ pre' = Snapshot
        /\ op' = <<"update_cursor", x, y>>
        /\ UNCHANGED <<is_shift_pressed, is_caps_locked, held, boot, scancodes, calls>>

CursorNext == UpdateCursor

SpecCursor == Init /\ [][CursorNext]_vars

(* ---- properties -------------------------------------------------------- *)
\* a cell as the display sees it: character in the low byte, attribute in
\* the high byte
Packed(ch, attr) == ch + 256 * attr

LastIs(call, arg) == op = <<call, arg>>

\* the buffer a scroll makes of buffer b under attribute attr
Scrolled(b, attr) ==
    [i \in 0 .. Cells - 1 |->
        IF i < (VGA_HEIGHT - 1) * VGA_WIDTH
        THEN b[i + VGA_WIDTH]
        ELSE Packed(SPACE, attr)]

RowBlank(y, attr) ==
    \A x \in 0 .. VGA_WIDTH - 1 :
        terminal_buffer[y * VGA_WIDTH + x] = Packed(SPACE, attr)

\* C1: the cursor stays in 0 <= row < HEIGHT, 0 <= col <= WIDTH, and no
\* regular character is written while col >= WIDTH.
C1_CursorInBounds ==
    /\ terminal_row \in 0 .. VGA_HEIGHT - 1
    /\ terminal_column \in 0 .. VGA_WIDTH
    /\ (op[1] = "putchar" /\ IsRegular(op[2])) => pre.column < VGA_WIDTH

\* C2: backspace at column 0 of a row > 0 moves the cursor to the last
\* column of the previous row and blanks exactly that cell.
C2_BackspaceToPreviousRow ==
    (LastIs("putchar", BS) /\ pre.column = 0 /\ pre.row > 0) =>
        /\ terminal_row = pre.row - 1
        /\ terminal_column = VGA_WIDTH - 1
        /\ terminal_buffer =
             [pre.buffer EXCEPT ![(pre.row - 1) * VGA_WIDTH + VGA_WIDTH - 1] =
                                   Packed(SPACE, terminal_color)]

\* the putchar calls of hist, in order
IsPut(e) == e[1] = "putchar"
Writes == SelectSeq(hist, IsPut)
OnlyRegular == \A i \in 1 .. Len(hist) : IsPut(hist[i]) => IsRegular(hist[i][2])
NoScrollCall == \A i \in 1 .. Len(hist) : hist[i][1] # "scroll"

\* C3: after n < WIDTH*HEIGHT regular characters from terminal_initialize,
\* the k-th of them is in cell (k mod WIDTH, k div WIDTH) with the attribute
\* of its write, the cursor is at (n mod WIDTH, n div WIDTH), and the cells
\* from n on are still the blanks of terminal_initialize (nothing scrolled).
C3_FillLayout ==
    (OnlyRegular /\ NoScrollCall /\ Len(Writes) < Cells) =>
        /\ \A k \in 0 .. Len(Writes) - 1 :
             terminal_buffer[(k \div VGA_WIDTH) * VGA_WIDTH + (k % VGA_WIDTH)] =
                 Packed(Writes[k + 1][2], Writes[k + 1][3])
        /\ terminal_column = Len(Writes) % VGA_WIDTH
        /\ terminal_row = Len(Writes) \div VGA_WIDTH
        /\ \A k \in Len(Writes) .. Cells - 1 :
             terminal_buffer[k] = Packed(SPACE, 140)
        /\ stray = {}

\* the screen is one cell short of full, with a 'b' or a colour change
\* somewhere on the way
C3_Witness ==
    /\ Len(Writes) = Cells - 1
    /\ FillChanges = 1
    /\ terminal_row = VGA_HEIGHT - 1
    /\ terminal_column = VGA_WIDTH - 1

OnlyNewlines(n) ==
    /\ Len(hist) = n
    /\ \A i \in 1 .. n : hist[i][1] = "putchar" /\ hist[i][2] = NL

\* C4: '\n' sets the column to 0 and moves down one row; from the last row
\* one scroll runs and the row stays HEIGHT-1.  HEIGHT newlines on a fresh
\* console end at (HEIGHT-1, 0) with rows 0..HEIGHT-2 blank, and the row is
\* never outside [0, HEIGHT).
C4_Newline ==
    /\ LastIs("putchar", NL) =>
          /\ terminal_column = 0
          /\ IF pre.row + 1 = VGA_HEIGHT
             THEN /\ terminal_row = VGA_HEIGHT - 1
                  /\ terminal_buffer = Scrolled(pre.buffer, pre.color)
             ELSE /\ terminal_row = pre.row + 1
                  /\ terminal_buffer = pre.buffer
    /\ OnlyNewlines(VGA_HEIGHT) =>
          /\ terminal_row = VGA_HEIGHT - 1
          /\ terminal_column = 0
          /\ \A y \in 0 .. VGA_HEIGHT - 2 : RowBlank(y, 140)
    /\ terminal_row \in 0 .. VGA_HEIGHT - 1

C4_Witness == OnlyNewlines(VGA_HEIGHT) /\ pre.row = VGA_HEIGHT - 1

\* C5: after terminal_scroll, row y < HEIGHT-1 holds the old row y+1, cell
\* for cell with its attribute, and row HEIGHT-1 is blank in the current
\* attribute; only the old row 0 is gone.
C5_Scroll ==
    LastIs("scroll", 0) =>
        /\ \A y \in 0 .. VGA_HEIGHT - 2 : \A x \in 0 .. VGA_WIDTH - 1 :
             terminal_buffer[y * VGA_WIDTH + x] = pre.buffer[(y + 1) * VGA_WIDTH + x]
        /\ RowBlank(VGA_HEIGHT - 1, terminal_color)
        /\ terminal_color = pre.color

\* a scroll, under a changed attribute, of a screen with text in row 1 and
\* none in row 0
C5_Witness ==
    /\ LastIs("scroll", 0)
    /\ pre.buffer[VGA_WIDTH] % 256 = CHAR_a
    /\ pre.buffer[0] % 256 = SPACE
    /\ pre.color # 140

TabTarget(c) == 4 * ((c \div 4) + 1)

\* C6: '\t' from column c < WIDTH goes to the smallest multiple of 4 above c
\* when that is below WIDTH; otherwise to column 0 of the next row, with the
\* scroll and the pin of a line wrap on the last row.
C6_Tab ==
    (LastIs("putchar", TAB) /\ pre.column < VGA_WIDTH) =>
        IF TabTarget(pre.column) < VGA_WIDTH
        THEN /\ terminal_column = TabTarget(pre.column)
             /\ terminal_row = pre.row
             /\ terminal_buffer = pre.buffer
        ELSE /\ terminal_column = 0
             /\ IF pre.row + 1 = VGA_HEIGHT
                THEN /\ terminal_row = VGA_HEIGHT - 1
                     /\ terminal_buffer = Scrolled(pre.buffer, pre.color)
                ELSE /\ terminal_row = pre.row + 1
                     /\ terminal_buffer = pre.buffer

\* a tab from column 5 that lands on column 8
C6_Witness ==
    /\ LastIs("putchar", TAB)
    /\ pre.column = 5
    /\ terminal_column = 8

\* C7: backspace at (0, 0) changes nothing: cursor, attribute and every cell
\* are as before.
C7_BackspaceAtOrigin ==
    (LastIs("putchar", BS) /\ pre.row = 0 /\ pre.column = 0) =>
        /\ terminal_row = 0
        /\ terminal_column = 0
        /\ terminal_color = pre.color
        /\ terminal_buffer = pre.buffer
        /\ stray = pre.stray
        /\ crtc = pre.crtc

\* a backspace at the origin when blanking the cell under the cursor would
\* show: that cell has another attribute than the current one
C7_Witness ==
    /\ LastIs("putchar", BS)
    /\ pre.row = 0
    /\ pre.column = 0
    /\ pre.buffer[0] # Packed(SPACE, pre.color)
    /\ Len(hist) > 2

\* the last translation call: <<scancode, capital, character returned>>
LastCall == calls[Len(calls)]

IsModifier(sc) == sc \in {SC_LSHIFT, SC_RSHIFT, SC_CAPS}

RECURSIVE Emitted(_)
Emitted(cs) ==
    IF cs = <<>> THEN <<>>
    ELSE IF Head(cs)[3] # NO_CHAR THEN <<Head(cs)[3]>> \o Emitted(Tail(cs))
    ELSE Emitted(Tail(cs))

\* C9: a shift make turns shift on and a shift break turns it off; with caps
\* lock off the stream 0x2A 0x1E 0xAA 0x1E asks for uppercase, then for
\* lowercase, and types 'A' then 'a'.
C9_ShiftTransient ==
    /\ (op[1] = "scancode" /\ op[2] \in {SC_LSHIFT, SC_RSHIFT}) => is_shift_pressed
    /\ (op[1] = "scancode" /\ op[2] \in {SC_LSHIFT_BREAK, SC_RSHIFT_BREAK}) =>
          ~is_shift_pressed
    /\ scancodes = <<SC_LSHIFT, SC_A, SC_LSHIFT_BREAK, SC_A>> =>
          /\ calls = << <<SC_A, TRUE, CHAR_A>>, <<SC_A, FALSE, CHAR_a>> >>
          /\ Emitted(calls) = <<CHAR_A, CHAR_a>>
          /\ Len(hist) = Len(Banner) + 2
          /\ hist[Len(hist) - 1][2] = CHAR_A
          /\ hist[Len(hist)][2] = CHAR_a

C9_Witness == scancodes = <<SC_LSHIFT, SC_A, SC_LSHIFT_BREAK, SC_A>>

\* C10: after every scancode, shift is on exactly when one of the two shift
\* keys is held down.
C10_ShiftIffHeld ==
    is_shift_pressed = (SC_LSHIFT \in held \/ SC_RSHIFT \in held)


\* C11: a regular character is stored, with the current attribute, in the
\* cell of the grid at the column and row the cursor had before the call;
\* the column then advances by one and, on reaching WIDTH, becomes 0 with
\* the row advancing, a scroll running and the row staying HEIGHT-1 when the
\* row reaches HEIGHT.
C11_RegularChar ==
    (op[1] = "putchar" /\ IsRegular(op[2])) =>
        LET written == [pre.buffer EXCEPT
                          ![pre.row * VGA_WIDTH + pre.column] =
                              Packed(op[2], pre.color)]
        IN  /\ pre.column \in 0 .. VGA_WIDTH - 1
            /\ IF pre.column + 1 < VGA_WIDTH
               THEN /\ terminal_column = pre.column + 1
                    /\ terminal_row = pre.row
                    /\ terminal_buffer = written
               ELSE /\ terminal_column = 0
                    /\ IF pre.row + 1 = VGA_HEIGHT
                       THEN /\ terminal_row = VGA_HEIGHT - 1
                            /\ terminal_buffer = Scrolled(written, pre.color)
                       ELSE /\ terminal_row = pre.row + 1
                            /\ terminal_buffer = written

\* C12: backspace with the column above 0 moves the cursor one column left
\* in the same row and replaces the grid cell at the new cursor position by
\* a blank in the current attribute, no other cell changing.
C12_Backspace ==
    (LastIs("putchar", BS) /\ pre.column > 0) =>
        /\ terminal_column = pre.column - 1
        /\ terminal_row = pre.row
        /\ terminal_column \in 0 .. VGA_WIDTH - 1
        /\ terminal_buffer =
             [pre.buffer EXCEPT
                ![terminal_row * VGA_WIDTH + terminal_column] =
                    Packed(SPACE, pre.color)]

\* the cursor location held by the CRT controller's registers 0x0E and 0x0F
HwCursor == crtc.reg[14] * 256 + crtc.reg[15]

CapsMakes == Cardinality({i \in 1 .. Len(scancodes) : scancodes[i] = 58})

\* C14: every scancode 0x3A flips is_caps_locked, 0xBA leaves is_caps_locked
\* and is_shift_pressed as they are, and is_caps_locked is true exactly when
\* an odd number of 0x3A codes has been processed.
C14_CapsToggle ==
    /\ is_caps_locked = (CapsMakes % 2 = 1)
    /\ LastIs("scancode", 58) => is_caps_locked = ~pre.caps
    /\ LastIs("scancode", 186) =>
          /\ is_caps_locked = pre.caps
          /\ is_shift_pressed = pre.shift

\* caps lock goes up after three make codes, a shift key being held
C14_Witness ==
    /\ LastIs("scancode", 186)
    /\ CapsMakes = 3
    /\ is_caps_locked
    /\ is_shift_pressed

\* the console is as it was before the last step
ConsoleUnchanged ==
    /\ terminal_row = pre.row
    /\ terminal_column = pre.column
    /\ terminal_color = pre.color
    /\ terminal_buffer = pre.buffer
    /\ stray = pre.stray
    /\ crtc = pre.crtc
    /\ outs = <<>>

\* the last step called neither scancode_to_ascii nor terminal_putchar
NothingEmitted == Len(calls) = pre.ncalls /\ Len(hist) = pre.nhist

\* C15: a scancode >= 0x80 other than 0xAA and 0xB6 is ignored: the two
\* flags, the cursor, the attribute and the grid stay as they are and no
\* character is emitted; the flags change on 0x2A, 0x36, 0xAA, 0xB6 and 0x3A
\* only.
C15_BreakIgnored ==
    /\ (op[1] = "scancode" /\ op[2] >= 128 /\ op[2] \notin {170, 182}) =>
          /\ is_shift_pressed = pre.shift
          /\ is_caps_locked = pre.caps
          /\ ConsoleUnchanged
          /\ NothingEmitted
    /\ (op[1] = "scancode" /\
          (is_shift_pressed # pre.shift \/ is_caps_locked # pre.caps)) =>
          op[2] \in {42, 54, 170, 182, 58}

\* the 'a' key goes up with shift held and caps lock on, after it typed
C15_Witness ==
    /\ LastIs("scancode", 158)
    /\ is_shift_pressed
    /\ is_caps_locked
    /\ Len(calls) > 0

\* C16: when scancode_to_ascii returns 0 nothing is emitted: terminal_putchar
\* is not called and cursor, attribute, grid and hardware cursor stay as
\* they are; when it returns a non-zero character, terminal_putchar is
\* called exactly once, with that character.
C16_SentinelSuppressed ==
    (op[1] = "scancode" /\ Len(calls) = pre.ncalls + 1) =>
        IF LastCall[3] = 0
        THEN /\ ConsoleUnchanged
             /\ Len(hist) = pre.nhist
        ELSE /\ Len(hist) = pre.nhist + 1
             /\ hist[Len(hist)] = <<"putchar", LastCall[3], pre.color>>
             /\ terminal_buffer =
                  [pre.buffer EXCEPT
                     ![pre.row * VGA_WIDTH + pre.column] =
                         Packed(LastCall[3], pre.color)]
             /\ terminal_column = pre.column + 1

\* escape, which has no character, is pressed after something was typed
C16_Witness ==
    /\ LastIs("scancode", 1)
    /\ LastCall = <<1, TRUE, 0>>
    /\ terminal_column > 0

\* the state terminal_initialize is specified to leave, given the fields
Fresh(row, column, color, buffer, cursor) ==
    /\ row = 0
    /\ column = 0
    /\ color = 140
    /\ buffer = [i \in 0 .. Cells - 1 |-> Packed(SPACE, 140)]
    /\ cursor = 0

\* C17: terminal_initialize, from any state, leaves the cursor at (0,0), the
\* attribute at the default, every cell a blank in the default attribute and
\* the hardware cursor at offset 0; called on a console it has just
\* initialized it changes nothing.
C17_Initialize ==
    op[1] = "initialize" =>
        /\ Fresh(terminal_row, terminal_column, terminal_color,
                 terminal_buffer, HwCursor)
        /\ Fresh(pre.row, pre.column, pre.color, pre.buffer,
                 pre.crtc.reg[14] * 256 + pre.crtc.reg[15]) =>
              /\ terminal_row = pre.row
              /\ terminal_column = pre.column
              /\ terminal_color = pre.color
              /\ terminal_buffer = pre.buffer
              /\ crtc.reg = pre.crtc.reg

\* terminal_initialize is called on a console with another attribute, text
\* on the screen and the cursor away from the origin
C17_Witness ==
    /\ op[1] = "initialize"
    /\ pre.color = 31
    /\ pre.row > 0
    /\ pre.column > 0
    /\ pre.buffer[0] % 256 = CHAR_a
    /\ pre.nhist > 0

\* the attribute of the last terminal_setcolor since terminal_initialize,
\* the default one when there was none
LastAttr ==
    LET S == {i \in 1 .. Len(hist) : hist[i][1] = "setcolor"}
    IN  IF S = {} THEN 140
        ELSE hist[CHOOSE i \in S : \A j \in S : j <= i][2]

\* C18: terminal_setcolor(a) changes the attribute to a and nothing else, no
\* cell and no cursor coordinate; the cells written afterwards, the blanks of
\* a backspace and of the scroll's cleared last row included, carry a.
C18_SetColor ==
    /\ op[1] = "setcolor" =>
          /\ terminal_color = op[2]
          /\ terminal_row = pre.row
          /\ terminal_column = pre.column
          /\ terminal_buffer = pre.buffer
          /\ crtc = pre.crtc
    /\ terminal_color = LastAttr
    /\ (op[1] = "putchar" /\ IsRegular(op[2]) /\ pre.column < VGA_WIDTH) =>
          IF pre.column = VGA_WIDTH - 1 /\ pre.row = VGA_HEIGHT - 1
          THEN /\ terminal_buffer[Cells - VGA_WIDTH - 1] =
                    Packed(op[2], LastAttr)
               /\ RowBlank(VGA_HEIGHT - 1, LastAttr)
          ELSE terminal_buffer[pre.row * VGA_WIDTH + pre.column] =
                    Packed(op[2], LastAttr)
    /\ (LastIs("putchar", BS) /\ pre.column \in 1 .. VGA_WIDTH) =>
          terminal_buffer[pre.row * VGA_WIDTH + pre.column - 1] =
              Packed(SPACE, LastAttr)
    /\ (op[1] = "scroll" \/
          (LastIs("putchar", NL) /\ pre.row = VGA_HEIGHT - 1)) =>
          RowBlank(VGA_HEIGHT - 1, LastAttr)

\* a backspace blanks, in the attribute set after it was written, a
\* character of the default attribute
C18_Witness ==
    /\ LastIs("putchar", BS)
    /\ pre.column > 0
    /\ LastAttr = 31
    /\ pre.buffer[pre.row * VGA_WIDTH + pre.column - 1] = Packed(CHAR_a, 140)

\* the four port writes that program the cursor location pos
CursorWrites(pos) ==
    << <<980, 15>>, <<981, pos % 256>>, <<980, 14>>, <<981, pos \div 256>> >>

\* C19: terminal_update_cursor(col, row) performs exactly four port writes,
\* in this order: 0x0F to port 0x3D4, the low byte of row * WIDTH + col to
\* port 0x3D5, 0x0E to port 0x3D4, the high byte to port 0x3D5.
C19_CursorPorts ==
    /\ op[1] = "update_cursor" =>
          outs = CursorWrites(op[3] * VGA_WIDTH + op[2])
    /\ op[1] = "initialize" => outs = CursorWrites(0)

\* a position with both bytes non-zero has been programmed
C19_Witness ==
    /\ op[1] = "update_cursor"
    /\ op[3] * VGA_WIDTH + op[2] > 256
    /\ crtc.reg[15] > 0
    /\ crtc.reg[14] > 1

\* C20: every store into the grid made by terminal_putchar calls after
\* terminal_initialize has a flat index in [0, WIDTH * HEIGHT): nothing is
\* written outside the array.
C20_WritesInBuffer ==
    /\ DOMAIN terminal_buffer = 0 .. Cells - 1
    /\ \A w \in stray : w[1] \in 0 .. Cells - 1

\* C21: a regular character written with the cursor at the last cell (row
\* HEIGHT-1, column WIDTH-1) is not lost: after the call it is in the cell
\* (row HEIGHT-2, column WIDTH-1) with the attribute current at the write,
\* row HEIGHT-1 is entirely blank and the cursor is at (row HEIGHT-1,
\* column 0).
C21_LastCell ==
    (op[1] = "putchar" /\ IsRegular(op[2]) /\
       pre.row = VGA_HEIGHT - 1 /\ pre.column = VGA_WIDTH - 1) =>
        /\ terminal_buffer[(VGA_HEIGHT - 2) * VGA_WIDTH + VGA_WIDTH - 1] =
               Packed(op[2], pre.color)
        /\ RowBlank(VGA_HEIGHT - 1, pre.color)
        /\ terminal_row = VGA_HEIGHT - 1
        /\ terminal_column = 0

\* a 'b' has been written at the last cell of a screen full of 'a', or an
\* 'a' in another attribute than the rest
C21_Witness ==
    /\ op[1] = "putchar"
    /\ pre.row = VGA_HEIGHT - 1
    /\ pre.column = VGA_WIDTH - 1
    /\ Len(Writes) = Cells
    /\ FillChanges = 1
    /\ pre.buffer[Cells - 1] = Packed(SPACE, 140)
    /\ pre.buffer[Cells - VGA_WIDTH - 1] # Packed(op[2], pre.color)

\* C22: a modifier scancode (0x2A, 0x36, 0xAA, 0xB6 or 0x3A) never reaches
\* the console: the translation is not asked for it, so whatever the table
\* holds, terminal_putchar is not called and cursor, attribute, grid and
\* hardware cursor are unchanged.
C22_ModifierFrame ==
    (op[1] = "scancode" /\ op[2] \in {42, 54, 170, 182, 58}) =>
        /\ NothingEmitted
        /\ ConsoleUnchanged

\* caps lock is pressed with a shift key held, after something was typed
C22_Witness ==
    /\ LastIs("scancode", 58)
    /\ is_shift_pressed
    /\ is_caps_locked
    /\ Len(calls) > 0
    /\ terminal_column > 0

====
